---- MODULE Spec2Model ----
(***************************************************************************)
(* A model of the dependency visualizer of src/main.py: the extraction and *)
(* resolution pipeline (patterns, resolve_alias, path normalisation) and   *)
(* the scan coordinator (sequential loop, thread pool with merge).         *)
(*                                                                         *)
(* A string is a sequence of one-character strings, so that startswith,    *)
(* replace, split, normpath and the regular expressions are computed as    *)
(* Python computes them.  Paths follow posixpath (os.sep = "/").           *)
(***************************************************************************)
EXTENDS Integers, Sequences, FiniteSets, TLC

VARIABLES
    project_root,   \* the project path as given on the command line
    cwd,            \* the process's working directory (absolute)
    fsfiles,        \* the regular files on disk (absolute paths)
    content,        \* file path -> its lines (the files the scan may read)
    fault,          \* file path -> what goes wrong when the file is processed
    aliases,        \* self.aliases, in insertion order: <<alias, path>> pairs
    parallel,       \* USE_PARALLEL_PROCESSING
    files_to_process, \* scan_project's list, in os.walk order
    phase,          \* where main() is
    next_i,         \* index of the next file to dispatch / process
    fstate,         \* file index -> pending, queued, running, logging, completed,
                    \* merging, merged, cut; index 0, the main thread -> idle, running, logging
    tmp,            \* thread -> the errors value it read in self.stats['errors'] += 1
    nlog,           \* thread -> increments of errors it still has to make
    result,         \* file index -> the outcome its future holds
    dependencies,   \* self.dependencies: the edge mapping, a set of <<key, set>> pairs
    stats,          \* self.stats
    reported,       \* the statistics scan_project printed (lines 295-298), or none
    partial,        \* the file whose merge an interrupt cut short, with the statements done
    pfile,          \* pipeline check: the file processed
    ppc,            \* pipeline check: off, start, done
    ptrace,         \* pipeline check: the <<token, resolved>> pairs of extraction
    pdeps,          \* pipeline check: extract_dependencies' result
    pres            \* pipeline check: _process_file_wrapper's result

vars == <<project_root, cwd, fsfiles, content, fault, aliases, parallel,
          files_to_process, phase, next_i, fstate, tmp, nlog, result,
          dependencies, stats, reported, partial,
          pfile, ppc, ptrace, pdeps, pres>>

----------------------------------------------------------------------------
(* Python str operations                                                    *)

Max(S) == CHOOSE x \in S : \A y \in S : y <= x
Min(S) == CHOOSE x \in S : \A y \in S : x <= y

\* s[i:] with a 1-based i
From(s, i) == SubSeq(s, i, Len(s))

\* str.startswith / str.endswith
startswith(s, p) == Len(p) <= Len(s) /\ SubSeq(s, 1, Len(p)) = p
endswith(s, p) == Len(p) <= Len(s) /\ From(s, Len(s) - Len(p) + 1) = p

\* str.find, 1-based, 0 when sub does not occur at or after position from
find(s, sub, from) ==
    LET hits == {i \in from..(Len(s) - Len(sub) + 1) : SubSeq(s, i, i + Len(sub) - 1) = sub}
    IN IF hits = {} THEN 0 ELSE Min(hits)

\* str.rfind of one character, 1-based, 0 when absent
rfind(s, c) ==
    LET hits == {i \in 1..Len(s) : s[i] = c}
    IN IF hits = {} THEN 0 ELSE Max(hits)

\* sub in s
contains(s, sub) == find(s, sub, 1) # 0

\* str.replace(old, new): every non-overlapping occurrence, left to right
RECURSIVE replace(_, _, _)
replace(s, old, new) ==
    LET i == find(s, old, 1)
    IN IF old = <<>> \/ i = 0 THEN s
       ELSE SubSeq(s, 1, i - 1) \o new \o replace(From(s, i + Len(old)), old, new)

\* str.split(sep) for a non-empty separator
RECURSIVE split(_, _)
split(s, sep) ==
    LET i == find(s, sep, 1)
    IN IF i = 0 THEN <<s>>
       ELSE <<SubSeq(s, 1, i - 1)>> \o split(From(s, i + Len(sep)), sep)

\* sep.join(parts)
RECURSIVE joinwith(_, _)
joinwith(parts, sep) ==
    IF parts = <<>> THEN <<>>
    ELSE IF Len(parts) = 1 THEN parts[1]
    ELSE parts[1] \o sep \o joinwith(Tail(parts), sep)

\* str.lstrip(chars) / str.rstrip(chars) / str.strip(chars)
RECURSIVE lstrip(_, _)
lstrip(s, chars) ==
    IF s # <<>> /\ s[1] \in chars THEN lstrip(Tail(s), chars) ELSE s
RECURSIVE rstrip(_, _)
rstrip(s, chars) ==
    IF s # <<>> /\ s[Len(s)] \in chars THEN rstrip(SubSeq(s, 1, Len(s) - 1), chars) ELSE s
strip(s, chars) == rstrip(lstrip(s, chars), chars)

\* the characters \s matches and str.strip() removes
Whitespace == {" ", "\t", "\n", "\r"}

\* the characters \w matches
WordChars ==
    {"a", "b", "c", "d", "e", "f", "g", "h", "i", "j", "k", "l", "m",
     "n", "o", "p", "q", "r", "s", "t", "u", "v", "w", "x", "y", "z",
     "A", "B", "C", "D", "E", "F", "G", "H", "I", "J", "K", "L", "M",
     "N", "O", "P", "Q", "R", "S", "T", "U", "V", "W", "X", "Y", "Z",
     "0", "1", "2", "3", "4", "5", "6", "7", "8", "9", "_"}

\* str.lower() of one character
lowerchar(c) ==
    CASE c = "A" -> "a" [] c = "B" -> "b" [] c = "C" -> "c" [] c = "D" -> "d"
      [] c = "E" -> "e" [] c = "F" -> "f" [] c = "G" -> "g" [] c = "H" -> "h"
      [] c = "I" -> "i" [] c = "J" -> "j" [] c = "K" -> "k" [] c = "L" -> "l"
      [] c = "M" -> "m" [] c = "N" -> "n" [] c = "O" -> "o" [] c = "P" -> "p"
      [] c = "Q" -> "q" [] c = "R" -> "r" [] c = "S" -> "s" [] c = "T" -> "t"
      [] c = "U" -> "u" [] c = "V" -> "v" [] c = "W" -> "w" [] c = "X" -> "x"
      [] c = "Y" -> "y" [] c = "Z" -> "z" [] OTHER -> c
lower(s) == [i \in 1..Len(s) |-> lowerchar(s[i])]

----------------------------------------------------------------------------
(* posixpath, over the modelled disk                                        *)

SEP == <<"/">>

\* os.path.join(a, b)
join(a, b) ==
    IF startswith(b, SEP) THEN b
    ELSE IF a = <<>> \/ endswith(a, SEP) THEN a \o b
    ELSE a \o SEP \o b

\* the component loop of posixpath.normpath
RECURSIVE normcomps(_, _, _)
normcomps(comps, new_comps, initial_slashes) ==
    IF comps = <<>> THEN new_comps
    ELSE LET comp == comps[1]
             n == Len(new_comps)
         IN IF comp = <<>> \/ comp = <<".">>
            THEN normcomps(Tail(comps), new_comps, initial_slashes)
            ELSE IF comp # <<".", ".">>
                    \/ (initial_slashes = 0 /\ n = 0)
                    \/ (n > 0 /\ new_comps[n] = <<".", ".">>)
            THEN normcomps(Tail(comps), Append(new_comps, comp), initial_slashes)
            ELSE IF n > 0
            THEN normcomps(Tail(comps), SubSeq(new_comps, 1, n - 1), initial_slashes)
            ELSE normcomps(Tail(comps), new_comps, initial_slashes)

\* os.path.normpath
normpath(path) ==
    IF path = <<>> THEN <<".">>
    ELSE LET initial_slashes ==
                 IF ~startswith(path, SEP) THEN 0
                 ELSE IF startswith(path, <<"/", "/">>) /\ ~startswith(path, <<"/", "/", "/">>)
                 THEN 2 ELSE 1
             comps == normcomps(split(path, SEP), <<>>, initial_slashes)
             p == [i \in 1..initial_slashes |-> "/"] \o joinwith(comps, SEP)
         IN IF p = <<>> THEN <<".">> ELSE p

\* os.path.dirname
dirname(p) ==
    LET i == rfind(p, "/")
        head == SubSeq(p, 1, i)
    IN IF head # <<>> /\ head # [k \in 1..Len(head) |-> "/"]
       THEN rstrip(head, {"/"}) ELSE head

\* os.path.abspath
abspath(path) ==
    IF startswith(path, SEP) THEN normpath(path) ELSE normpath(join(cwd, path))

\* the non-empty components of a path
RECURSIVE nonempty(_)
nonempty(parts) ==
    IF parts = <<>> THEN <<>>
    ELSE IF parts[1] = <<>> THEN nonempty(Tail(parts))
    ELSE <<parts[1]>> \o nonempty(Tail(parts))

\* len(os.path.commonprefix([a, b])) of two component lists
RECURSIVE commonlen(_, _)
commonlen(a, b) ==
    IF a # <<>> /\ b # <<>> /\ a[1] = b[1] THEN 1 + commonlen(Tail(a), Tail(b)) ELSE 0

\* os.path.relpath(path, start)
relpath(path, start) ==
    LET start_list == nonempty(split(abspath(start), SEP))
        path_list == nonempty(split(abspath(path), SEP))
        i == commonlen(start_list, path_list)
        rel_list == [k \in 1..(Len(start_list) - i) |-> <<".", ".">>]
                    \o SubSeq(path_list, i + 1, Len(path_list))
    IN IF rel_list = <<>> THEN <<".">> ELSE joinwith(rel_list, SEP)

\* the directories on disk: the ancestors of the files
RECURSIVE ancestors(_)
ancestors(p) ==
    LET d == dirname(p)
    IN IF d = p THEN {p} ELSE {d} \cup ancestors(d)
fsdirs == UNION {ancestors(f) : f \in fsfiles}

\* os.path.isdir / os.path.exists
isdir(p) == p # <<>> /\ abspath(p) \in fsdirs
exists(p) == p # <<>> /\ (abspath(p) \in fsfiles \/ abspath(p) \in fsdirs)

\* os.path.splitext(p)[1]
splitext1(p) ==
    LET sepIndex == rfind(p, "/")
        dotIndex == rfind(p, ".")
        named == {k \in (sepIndex + 1)..(dotIndex - 1) : p[k] # "."}
    IN IF dotIndex > sepIndex /\ named # {} THEN From(p, dotIndex) ELSE <<>>

----------------------------------------------------------------------------
(* DependencyVisualizer.__init__ and _init_patterns                         *)

exclude_dirs ==
    {<<"b", "i", "n">>,
     <<"o", "b", "j">>,
     <<"n", "o", "d", "e", "_", "m", "o", "d", "u", "l", "e", "s">>,
     <<"v", "e", "n", "v">>,
     <<".", "g", "i", "t">>,
     <<"_", "_", "p", "y", "c", "a", "c", "h", "e", "_", "_">>,
     <<"p", "a", "c", "k", "a", "g", "e", "s">>,
     <<".", "v", "s">>,
     <<"b", "u", "i", "l", "d">>,
     <<"d", "i", "s", "t">>,
     <<"D", "e", "b", "u", "g">>,
     <<"R", "e", "l", "e", "a", "s", "e">>,
     <<"l", "i", "b">>,
     <<"c", "m", "a", "k", "e", "-", "b", "u", "i", "l", "d", "-", "d", "e", "b", "u", "g">>,
     <<"c", "m", "a", "k", "e", "-", "b", "u", "i", "l", "d", "-", "r", "e", "l", "e", "a", "s", "e">>,
     <<"t", "a", "r", "g", "e", "t">>}

\* in the dict's insertion order, which detect_language and the index search follow
file_extensions ==
    <<[lang |-> "c", exts |-> <<<<".", "c">>, <<".", "h">>>>],
      [lang |-> "cpp", exts |-> <<<<".", "c", "p", "p">>, <<".", "h", "p", "p">>, <<".", "c", "c">>,
                                  <<".", "h", "h">>, <<".", "c", "x", "x">>, <<".", "h", "x", "x">>>>],
      [lang |-> "csharp", exts |-> <<<<".", "c", "s">>>>],
      [lang |-> "python", exts |-> <<<<".", "p", "y">>>>],
      [lang |-> "javascript", exts |-> <<<<".", "j", "s">>, <<".", "j", "s", "x">>,
                                         <<".", "m", "j", "s">>, <<".", "c", "j", "s">>>>],
      [lang |-> "typescript", exts |-> <<<<".", "t", "s">>, <<".", "t", "s", "x">>>>],
      [lang |-> "rust", exts |-> <<<<".", "r", "s">>>>],
      [lang |-> "go", exts |-> <<<<".", "g", "o">>>>],
      [lang |-> "java", exts |-> <<<<".", "j", "a", "v", "a">>>>],
      [lang |-> "kotlin", exts |-> <<<<".", "k", "t">>>>]>>

\* the extensions registered for a language, in order
extensions_of(lang) ==
    LET i == CHOOSE k \in 1..Len(file_extensions) : file_extensions[k].lang = lang
    IN file_extensions[i].exts

\* A regular expression is a sequence of atoms: a literal string, or a character
\* class (cs, complemented when neg) taken once ("1"), zero or more times ("*")
\* or one or more times ("+").
Lit(str) == [k |-> "lit", s |-> str, cs |-> {}, neg |-> FALSE, q |-> "1"]
Cls(chars, neg, q) == [k |-> "cls", s |-> <<>>, cs |-> chars, neg |-> neg, q |-> q]
Quote == {"'", "\""}

\* ^\s*#include\s+"([^"]+)"   and   ^\s*#include\s+<([^>]+)>
include_local ==
    [atoms |-> <<Cls(Whitespace, FALSE, "*"), Lit(<<"#", "i", "n", "c", "l", "u", "d", "e">>),
                 Cls(Whitespace, FALSE, "+"), Lit(<<"\"">>), Cls({"\""}, TRUE, "+"), Lit(<<"\"">>)>>,
     group |-> 5, anchored |-> TRUE, type |-> "local"]
include_system ==
    [atoms |-> <<Cls(Whitespace, FALSE, "*"), Lit(<<"#", "i", "n", "c", "l", "u", "d", "e">>),
                 Cls(Whitespace, FALSE, "+"), Lit(<<"<">>), Cls({">"}, TRUE, "+"), Lit(<<">">>)>>,
     group |-> 5, anchored |-> TRUE, type |-> "system"]
\* ^\s*import\s+([^;]+);   and   ^\s*module\s+([^;]+);
cpp_import ==
    [atoms |-> <<Cls(Whitespace, FALSE, "*"), Lit(<<"i", "m", "p", "o", "r", "t">>),
                 Cls(Whitespace, FALSE, "+"), Cls({";"}, TRUE, "+"), Lit(<<";">>)>>,
     group |-> 4, anchored |-> TRUE, type |-> "module"]
cpp_module ==
    [atoms |-> <<Cls(Whitespace, FALSE, "*"), Lit(<<"m", "o", "d", "u", "l", "e">>),
                 Cls(Whitespace, FALSE, "+"), Cls({";"}, TRUE, "+"), Lit(<<";">>)>>,
     group |-> 4, anchored |-> TRUE, type |-> "module"]
\* import\s+['"]([^"']+)['"]
ts_import ==
    [atoms |-> <<Lit(<<"i", "m", "p", "o", "r", "t">>), Cls(Whitespace, FALSE, "+"),
                 Cls(Quote, FALSE, "1"), Cls(Quote, TRUE, "+"), Cls(Quote, FALSE, "1")>>,
     group |-> 4, anchored |-> FALSE, type |-> "import"]
\* type\s+\w+\s*=\s*import\(['"]([^"']+)['"]\)
ts_type_import ==
    [atoms |-> <<Lit(<<"t", "y", "p", "e">>), Cls(Whitespace, FALSE, "+"),
                 Cls(WordChars, FALSE, "+"), Cls(Whitespace, FALSE, "*"), Lit(<<"=">>),
                 Cls(Whitespace, FALSE, "*"), Lit(<<"i", "m", "p", "o", "r", "t", "(">>),
                 Cls(Quote, FALSE, "1"), Cls(Quote, TRUE, "+"), Cls(Quote, FALSE, "1"),
                 Lit(<<")">>)>>,
     group |-> 9, anchored |-> FALSE, type |-> "type_import"]

\* self.import_patterns for the languages of the modelled trees (c, cpp and
\* typescript); java and kotlin have no entry in the source either.
PatternLangs == {"c", "cpp", "typescript"}
import_patterns(language) ==
    CASE language = "c" -> <<include_local, include_system>>
      [] language = "cpp" -> <<include_local, include_system, cpp_import, cpp_module>>
      [] language = "typescript" -> <<ts_import, ts_type_import>>

----------------------------------------------------------------------------
(* re: matching with greedy quantifiers and backtracking                    *)

\* the number of consecutive characters of s from position i that atom a accepts
RECURSIVE runlen(_, _, _)
runlen(a, s, i) ==
    IF i <= Len(s) /\ ((s[i] \in a.cs) # a.neg) THEN 1 + runlen(a, s, i + 1) ELSE 0

\* Match atoms k.. of a pattern against s from position i: <<>> when there is no
\* match, otherwise the start position of every atom from k on, then the end.
RECURSIVE MatchAt(_, _, _, _)
MatchAt(atoms, k, s, i) ==
    IF k > Len(atoms) THEN <<i>>
    ELSE LET a == atoms[k]
         IN IF a.k = "lit"
            THEN IF i + Len(a.s) - 1 <= Len(s) /\ SubSeq(s, i, i + Len(a.s) - 1) = a.s
                 THEN LET r == MatchAt(atoms, k + 1, s, i + Len(a.s))
                      IN IF r = <<>> THEN <<>> ELSE <<i>> \o r
                 ELSE <<>>
            ELSE LET run == runlen(a, s, i)
                     lo == IF a.q = "*" THEN 0 ELSE 1
                     hi == IF a.q = "1" THEN (IF run > 0 THEN 1 ELSE 0) ELSE run
                     rest == [n \in lo..hi |-> MatchAt(atoms, k + 1, s, i + n)]
                     ok == {n \in lo..hi : rest[n] # <<>>}
                 IN IF ok = {} THEN <<>> ELSE <<i>> \o rest[Max(ok)]

\* pattern.finditer(line): the captured group of every match, left to right
RECURSIVE finditer(_, _, _)
finditer(pat, line, from) ==
    LET starts == {i \in from..(IF pat.anchored THEN 1 ELSE Len(line)) :
                       MatchAt(pat.atoms, 1, line, i) # <<>>}
    IN IF starts = {} THEN <<>>
       ELSE LET i == Min(starts)
                m == MatchAt(pat.atoms, 1, line, i)
                end == m[Len(m)]
            IN <<SubSeq(line, m[pat.group], m[pat.group + 1] - 1)>>
               \o finditer(pat, line, IF end > i THEN end ELSE end + 1)

----------------------------------------------------------------------------
(* detect_language, should_exclude, resolve_alias, extract_dependencies     *)

\* detect_language: the first language registering the extension, "" for None
detect_language(file_path) ==
    LET ext == lower(splitext1(file_path))
        hits == {k \in 1..Len(file_extensions) :
                     \E j \in 1..Len(file_extensions[k].exts) : file_extensions[k].exts[j] = ext}
    IN IF hits = {} THEN "" ELSE file_extensions[Min(hits)].lang

\* should_exclude: an excluded name among the path's components
should_exclude(path) ==
    LET path_parts == split(path, SEP)
    IN \E k \in 1..Len(path_parts) : path_parts[k] \in exclude_dirs

\* lines 209-223 of resolve_alias: namespace, aliases in insertion order, relative
resolve_rest(dep, current_file_dir, language) ==
    IF language = "csharp" /\ contains(dep, <<".">>) /\ ~endswith(dep, <<".", "c", "s">>)
    THEN replace(dep, <<".">>, SEP) \o <<".", "c", "s">>
    ELSE LET hits == {k \in 1..Len(aliases) : startswith(dep, aliases[k][1])}
         IN IF hits # {}
            THEN replace(dep, aliases[Min(hits)][1], aliases[Min(hits)][2])
            ELSE IF startswith(dep, <<".">>) \/ startswith(dep, SEP)
            THEN normpath(join(current_file_dir, dep))
            ELSE dep

\* resolve_alias
resolve_alias(dep, current_file_dir, language) ==
    IF language \in {"c", "cpp"} /\ startswith(dep, <<"\"">>)
    THEN LET d == strip(dep, {"\""})
             abs_path == normpath(join(current_file_dir, d))
         IN IF exists(abs_path) THEN abs_path
            ELSE resolve_rest(d, current_file_dir, language)
    ELSE resolve_rest(dep, current_file_dir, language)

\* line 252: cut at a comment, strip, drop braces, asterisks, whitespace and semicolons
clean(dep) ==
    LET cut == strip(split(split(dep, <<"/", "/">>)[1], <<"/", "*">>)[1], Whitespace)
    IN SelectSeq(cut, LAMBDA ch : ch \notin ({"{", "}", "*", ";"} \cup Whitespace))

\* skip_system without the test of lines 245-246
skip_system_never(language, pattern_type) == FALSE

\* whether extract_dependencies skips the groups of a pattern (lines 245-246)
skip_system(language, pattern_type) ==
    language \in {"c", "cpp"} /\ pattern_type = "system"

\* lines 243-256 for one captured group: the <<token, resolved>> pairs it adds
group_pairs(group, pattern_type, current_dir, language) ==
    IF group = <<>> \/ skip_system(language, pattern_type) THEN {}
    ELSE LET pieces == split(strip(group, Whitespace), <<",">>)
             deps == {clean(strip(pieces[k], Whitespace)) : k \in 1..Len(pieces)}
         IN {<<dep, resolve_alias(dep, current_dir, language)>> :
                 dep \in {d \in deps : d # <<>> /\ resolve_alias(d, current_dir, language) # <<>>}}

\* extract_dependencies with the token each dependency came from
extract_pairs(file_path, lines) ==
    LET language == detect_language(file_path)
        current_dir == dirname(file_path)
    IN IF language = "" \/ language \notin PatternLangs THEN {}
       ELSE LET pats == import_patterns(language)
            IN UNION {
                 UNION {
                   LET groups == finditer(pats[p], lines[l], 1)
                   IN UNION {group_pairs(groups[g], pats[p].type, current_dir, language) :
                                 g \in 1..Len(groups)} :
                   l \in 1..Len(lines)} :
                 p \in 1..Len(pats)}

\* extract_dependencies
extract_dependencies(file_path, lines) ==
    {pr[2] : pr \in extract_pairs(file_path, lines)}

----------------------------------------------------------------------------
(* path normalisation and the per-file outcome                              *)

\* lines 424-430 (372-378): the first index file in the language's extension order
index_file(abs_dep, file_path) ==
    LET lang == detect_language(file_path)
    IN IF lang = "" THEN abs_dep
       ELSE LET exts == extensions_of(lang)
                name(k) == join(abs_dep, <<"i", "n", "d", "e", "x">> \o exts[k])
                hits == {k \in 1..Len(exts) : exists(name(k))}
            IN IF hits = {} THEN abs_dep ELSE name(Min(hits))

\* lines 434-435 (382-383): the dependency is added unless an excluded name
\* occurs in it
add_dep(dep) ==
    IF \E exclude_dir \in exclude_dirs : contains(dep, exclude_dir)
    THEN [deps |-> {}, raised |-> FALSE]
    ELSE [deps |-> {dep}, raised |-> FALSE]

\* lines 431-432 (379-380): the project-relative path of what was found;
\* os.path.relpath raising for this file is caught at line 436 (384)
relativize(dep, file_path, abs_dep) ==
    IF ~exists(abs_dep) THEN add_dep(dep)
    ELSE IF fault[file_path] = "normalize" THEN [deps |-> {}, raised |-> TRUE]
    ELSE add_dep(relpath(abs_dep, project_root))

\* lines 421-430 (369-378): an existing directory gives way to its index file
locate(dep, file_path, abs_dep) ==
    IF ~exists(abs_dep) THEN add_dep(dep)
    ELSE relativize(dep, file_path,
                    IF isdir(abs_dep) THEN index_file(abs_dep, file_path) ELSE abs_dep)

\* lines 418-437 (366-386) for one dependency: what is added to normalized_deps,
\* and whether the step raised
normalize_dep(dep, file_path) ==
    IF startswith(dep, <<".">>) \/ startswith(dep, SEP)
    THEN locate(dep, file_path, normpath(join(dirname(file_path), dep)))
    ELSE add_dep(dep)

\* the normalisation loop over a dependency set
normalized_deps(deps, file_path) ==
    UNION {normalize_dep(dep, file_path).deps : dep \in deps}
normalize_errors(deps, file_path) ==
    Cardinality({dep \in deps : normalize_dep(dep, file_path).raised})

\* lines 398-410 (344-358): utf-8, then latin-1 on a decode error; FALSE when the
\* file cannot be read
readable(file_path) == fault[file_path] # "unreadable"

\* line 439: None for an empty set, otherwise the pair; logs is the number of
\* _log_error calls made on the way
returned(rel_path, normalized, logs) ==
    [kind |-> IF normalized # {} THEN "result" ELSE "none",
     rel_path |-> rel_path, deps |-> normalized, logs |-> logs]

\* lines 415-439 (363-386): the normalisation loop
normalize_all(rel_path, file_path, extracted) ==
    returned(rel_path, normalized_deps(extracted, file_path),
             normalize_errors(extracted, file_path))

\* lines 412-439 of _process_file_wrapper, after the read (lines 360-386 of
\* _process_file_single are the same statements)
process_lines(file_path, lines) ==
    normalize_all(relpath(file_path, project_root), file_path,
                  extract_dependencies(file_path, lines))

\* _process_file_wrapper: as process_lines, and kind "raise" when an exception
\* leaves the worker (os.path.relpath at line 412, outside every try)
process_file_wrapper(file_path) ==
    IF should_exclude(file_path)
    THEN [kind |-> "none", rel_path |-> <<>>, deps |-> {}, logs |-> 0]
    ELSE IF ~readable(file_path)
    THEN [kind |-> "none", rel_path |-> <<>>, deps |-> {}, logs |-> 1]
    ELSE IF fault[file_path] = "relpath"
    THEN [kind |-> "raise", rel_path |-> <<>>, deps |-> {}, logs |-> 0]
    ELSE process_lines(file_path, content[file_path])

\* self.dependencies[rel_path] = deps
put(edges, rel_path, deps) ==
    {e \in edges : e[1] # rel_path} \cup {<<rel_path, deps>>}

\* merge_stats counting the file instead of its dependencies
merge_stats_per_file(st, deps) ==
    [st EXCEPT !.files_processed = @ + 1,
               !.dependencies_found = @ + 1]

\* lines 322-323: the counters of a merged result
merge_stats(st, deps) ==
    [st EXCEPT !.files_processed = @ + 1,
               !.dependencies_found = @ + Cardinality(deps)]

\* lines 385, 388-391 of _process_file_single for the outcome r of lines 360-386:
\* every normalisation failure counts twice (line 385 and _log_error)
single_merge(st, edges, r) ==
    [raised |-> FALSE,
     stats |-> [st EXCEPT !.errors = @ + 2 * r.logs,
                          !.dependencies_found = @ + Cardinality(r.deps),
                          !.files_processed = @ + 1],
     dependencies |-> IF r.deps # {} THEN put(edges, r.rel_path, r.deps) ELSE edges]

\* _process_file_single on the counters st and the edge mapping edges: raised when
\* an exception leaves it (os.path.relpath at line 360, outside every try)
process_file_single(file_path, st, edges) ==
    IF should_exclude(file_path)
    THEN [raised |-> FALSE, stats |-> [st EXCEPT !.skipped = @ + 1], dependencies |-> edges]
    ELSE IF ~readable(file_path)
    THEN [raised |-> FALSE, stats |-> [st EXCEPT !.errors = @ + 2], dependencies |-> edges]
    ELSE IF fault[file_path] = "relpath"
    THEN [raised |-> TRUE, stats |-> st, dependencies |-> edges]
    ELSE single_merge(st, edges, process_lines(file_path, content[file_path]))

\* one more iteration of the loop at lines 289-293 after the outcome prev
single_next(prev, file_path) ==
    IF prev.raised THEN prev
    ELSE process_file_single(file_path, prev.stats, prev.dependencies)

----------------------------------------------------------------------------
(* scan_project's enumeration                                               *)

\* os.path.basename
basename(p) == From(p, rfind(p, "/") + 1)

\* line 280: the path ends with a registered extension
has_source_ext(file_path) ==
    \E k \in 1..Len(file_extensions) : \E j \in 1..Len(file_extensions[k].exts) :
        endswith(file_path, file_extensions[k].exts[j])

\* the orders in which a directory listing may return a set of names
Perms(S) ==
    {q \in [1..Cardinality(S) -> S] : \A i, j \in 1..Cardinality(S) : q[i] = q[j] => i = j}

\* lines 273-281: the lists os.walk may produce from top, top down, excluded
\* directories pruned, in any listing order
RECURSIVE walk(_), walkdirs(_)
walkdirs(ds) ==
    IF ds = <<>> THEN {<<>>}
    ELSE {a \o b : a \in walk(ds[1]), b \in walkdirs(Tail(ds))}
walk(top) ==
    LET here == abspath(top)
        files == {join(top, basename(f)) : f \in {g \in fsfiles : dirname(g) = here}}
        dirs == {join(top, basename(d)) : d \in {g \in fsdirs : g # here /\ dirname(g) = here}}
        kept_files == {f \in files : has_source_ext(f)}
        kept_dirs == {d \in dirs : ~should_exclude(d)}
    IN {fo \o rest : fo \in Perms(kept_files),
                     rest \in UNION {walkdirs(ds) : ds \in Perms(kept_dirs)}}

----------------------------------------------------------------------------
(* bounds and the projects scanned                                          *)

MAX_WORKERS == 2     \* cpu_count() * 2 in the source; two workers suffice to race
CHUNK_SIZE == 2      \* 100 in the source, scaled so that a small project spans chunks
MaxFaults == 2       \* files of one project that fail
MaxLines == 2        \* lines of the file of the pipeline check

\* what can go wrong with one file: open/read raising, os.path.relpath raising
\* at line 412 (360), os.path.relpath raising inside the normalisation loop
Faults == {"none", "unreadable", "relpath", "normalize"}

\* project path as given, and the working directory: absolute, relative, and
\* a project that itself lies under a directory with an excluded name
Layouts ==
    { [root |-> <<"/", "p">>, cwd |-> <<"/", "p">>],
      [root |-> <<".">>, cwd |-> <<"/", "p">>],
      [root |-> <<"/", "q", "/", "l", "i", "b">>, cwd |-> <<"/", "q", "/", "l", "i", "b">>] }

\* the project of the coordinator check: project-relative path and lines
CoordTree ==
    { [path |-> <<"a", ".", "c">>, lines |-> <<<<"#", "i", "n", "c", "l", "u", "d", "e", " ", "\"", "b", ".", "h", "\"">>, <<"#", "i", "n", "c", "l", "u", "d", "e", " ", "<", "s", "t", "d", "i", "o", ".", "h", ">">>>>],
      [path |-> <<"b", ".", "h">>, lines |-> <<>>],
      [path |-> <<"s", "/", "m", ".", "c">>, lines |-> <<<<"#", "i", "n", "c", "l", "u", "d", "e", " ", "\"", "n", ".", "h", "\"">>, <<"#", "i", "n", "c", "l", "u", "d", "e", " ", "\"", ".", ".", "/", "b", ".", "h", "\"">>>>],
      [path |-> <<"s", "/", "t", ".", "t", "s">>, lines |-> <<<<"i", "m", "p", "o", "r", "t", " ", "'", "@", "a", "/", "b", "/", "c", "'">>>>] }

\* the files on disk of the pipeline check
PipeTree ==
    { <<"a", ".", "c">>, <<"b", ".", "h">>, <<"s", "/", "m", ".", "c">>, <<"s", "/", "n", ".", "h">>, <<"s", "/", "k", ".", "c", "p", "p">>, <<"s", "/", "t", ".", "t", "s">>,
      <<"s", "/", "u", "/", "i", "n", "d", "e", "x", ".", "t", "s">>, <<"s", "/", "u", "/", "i", "n", "d", "e", "x", ".", "t", "s", "x">>, <<"s", "/", "v", "/", "i", "n", "d", "e", "x", ".", "t", "s", "x">> }

\* the files the pipeline check processes
PipeFiles == { <<"a", ".", "c">>, <<"s", "/", "m", ".", "c">>, <<"s", "/", "k", ".", "c", "p", "p">>, <<"s", "/", "t", ".", "t", "s">> }

\* the lines a file of the pipeline check is made of, by language
CLines ==
    { <<"#", "i", "n", "c", "l", "u", "d", "e", " ", "\"", "b", ".", "h", "\"">>, <<"#", "i", "n", "c", "l", "u", "d", "e", " ", "\"", "n", ".", "h", "\"">>, <<"#", "i", "n", "c", "l", "u", "d", "e", " ", "\"", ".", ".", "/", "b", ".", "h", "\"">>,
      <<"#", "i", "n", "c", "l", "u", "d", "e", " ", "<", "s", "t", "d", "i", "o", ".", "h", ">">>, <<"#", "i", "n", "c", "l", "u", "d", "e", " ", "<", "n", ".", "h", ">">> }
TsLines ==
    { <<"i", "m", "p", "o", "r", "t", " ", "'", "@", "a", "/", "b", "/", "c", "'">>, <<"i", "m", "p", "o", "r", "t", " ", "'", ".", "/", "u", "'">>, <<"i", "m", "p", "o", "r", "t", " ", "'", ".", "/", "v", "'", ";">> }
LinesOf(file_path) ==
    IF detect_language(file_path) \in {"c", "cpp"} THEN CLines ELSE TsLines

\* sequences of at most n elements of S
SeqsUpTo(S, n) == UNION {[1..k -> S] : k \in 0..n}

\* the alias tables load_config may have built, in insertion order
AliasTables ==
    { <<>>,
      << <<<<"@", "a">>, <<"/", "x">>>>, <<<<"@", "a", "/", "b">>, <<"/", "y">>>> >>,
      << <<<<"@", "a", "/", "b">>, <<"/", "y">>>>, <<<<"@", "a">>, <<"/", "x">>>> >> }

\* the alias table of the coordinator check
CoordAliases == << <<<<"@", "a">>, <<"/", "x">>>>, <<<<"@", "a", "/", "b">>, <<"/", "y">>>> >>

\* self.stats after __init__ (lines 43-49)
InitStats ==
    [files_processed |-> 0, dependencies_found |-> 0, errors |-> 0,
     warnings |-> 0, skipped |-> 0]

\* the state after construction and load_config, before the enumeration
Init ==
    /\ \E layout \in Layouts :
         /\ project_root = layout.root
         /\ cwd = layout.cwd
         /\ fsfiles = {join(layout.cwd, t.path) : t \in CoordTree}
         /\ content = [fp \in {join(layout.root, t.path) : t \in CoordTree} |->
                          (CHOOSE t \in CoordTree : join(layout.root, t.path) = fp).lines]
         /\ fault \in {f \in [{join(layout.root, t.path) : t \in CoordTree} -> Faults] :
                          Cardinality({fp \in DOMAIN f : f[fp] # "none"}) <= MaxFaults}
    /\ aliases = CoordAliases
    /\ parallel \in BOOLEAN
    /\ files_to_process = <<>>
    /\ phase = "start"
    /\ next_i = 1
    /\ fstate = <<>>
    /\ tmp = <<>>
    /\ nlog = <<>>
    /\ result = <<>>
    /\ dependencies = {}
    /\ stats = InitStats
    /\ reported = <<>>
    /\ partial = <<>>
    /\ pfile = <<>>
    /\ ppc = "off"
    /\ ptrace = {}
    /\ pdeps = {}
    /\ pres = <<>>

env == <<project_root, cwd, fsfiles, content, fault, aliases, parallel>>
pipe == <<pfile, ppc, ptrace, pdeps, pres>>

\* lines 272-281: scan_project collects the files, in one of os.walk's orders;
\* index 0 of fstate, tmp and nlog is the main thread
Enumerate ==
    /\ phase = "start"
    /\ files_to_process' \in walk(project_root)
    /\ phase' = "scanning"
    /\ fstate' = [i \in 0..Len(files_to_process') |-> IF i = 0 THEN "idle" ELSE "pending"]
    /\ tmp' = [i \in 0..Len(files_to_process') |-> 0]
    /\ nlog' = [i \in 0..Len(files_to_process') |-> 0]
    /\ result' = [i \in 1..Len(files_to_process') |-> <<>>]
    /\ UNCHANGED <<env, next_i, dependencies, stats, reported, partial, pipe>>

----------------------------------------------------------------------------
(* _parallel_process_files: main thread (index 0) and pool workers          *)

Files == 1..Len(files_to_process)
Busy == {i \in Files : fstate[i] \in {"running", "logging"}}
Queued == {i \in Files : fstate[i] = "queued"}

\* lines 307-312: the main thread submits the next chunk, once the as_completed
\* loop over the previous chunk has ended
Submit ==
    /\ phase = "scanning" /\ parallel /\ fstate[0] = "idle"
    /\ next_i <= Len(files_to_process)
    /\ \A i \in 1..(next_i - 1) : fstate[i] = "merged"
    /\ fstate' = [i \in DOMAIN fstate |->
                     IF i >= next_i /\ i < next_i + CHUNK_SIZE THEN "queued" ELSE fstate[i]]
    /\ next_i' = Min({next_i + CHUNK_SIZE, Len(files_to_process) + 1})
    /\ UNCHANGED <<env, files_to_process, phase, tmp, nlog, result, dependencies,
                   stats, reported, partial, pipe>>

\* a free worker takes the oldest queued work item and runs _process_file_wrapper;
\* its _log_error calls follow as separate steps
Start(i) ==
    /\ phase \in {"scanning", "stopping"}
    /\ fstate[i] = "queued" /\ i = Min(Queued)
    /\ Cardinality(Busy) < MAX_WORKERS
    /\ result' = [result EXCEPT ![i] = process_file_wrapper(files_to_process[i])]
    /\ nlog' = [nlog EXCEPT ![i] = result'[i].logs]
    /\ fstate' = [fstate EXCEPT ![i] = "running"]
    /\ UNCHANGED <<env, files_to_process, phase, next_i, tmp, dependencies, stats,
                   reported, partial, pipe>>

\* line 95, self.stats['errors'] += 1 without the lock: the read ...
LogRead(t) ==
    /\ fstate[t] = "running" /\ nlog[t] > 0
    /\ t = 0 => phase = "scanning"
    /\ tmp' = [tmp EXCEPT ![t] = stats.errors]
    /\ fstate' = [fstate EXCEPT ![t] = "logging"]
    /\ UNCHANGED <<env, files_to_process, phase, next_i, nlog, result, dependencies,
                   stats, reported, partial, pipe>>

\* ... and the write (for the main thread also line 329, which takes the lock
\* no worker takes)
LogWrite(t) ==
    /\ fstate[t] = "logging"
    /\ t = 0 => phase = "scanning"
    /\ stats' = [stats EXCEPT !.errors = tmp[t] + 1]
    /\ nlog' = [nlog EXCEPT ![t] = @ - 1]
    /\ fstate' = [fstate EXCEPT ![t] = "running"]
    /\ UNCHANGED <<env, files_to_process, phase, next_i, tmp, result, dependencies,
                   reported, partial, pipe>>

\* the worker returns (or raises): the future is done
Finish(i) ==
    /\ i # 0 /\ fstate[i] = "running" /\ nlog[i] = 0
    /\ fstate' = [fstate EXCEPT ![i] = "completed"]
    /\ UNCHANGED <<env, files_to_process, phase, next_i, tmp, nlog, result,
                   dependencies, stats, reported, partial, pipe>>

\* lines 317-323: as_completed yields a future holding a result
MergeResult(i) ==
    /\ phase = "scanning" /\ parallel /\ fstate[0] = "idle"
    /\ fstate[i] = "completed" /\ result[i].kind = "result"
    /\ dependencies' = put(dependencies, result[i].rel_path, result[i].deps)
    /\ stats' = merge_stats(stats, result[i].deps)
    /\ fstate' = [fstate EXCEPT ![i] = "merged"]
    /\ UNCHANGED <<env, files_to_process, phase, next_i, tmp, nlog, result,
                   reported, partial, pipe>>

\* lines 324-326: as_completed yields a future holding None
MergeNone(i) ==
    /\ phase = "scanning" /\ parallel /\ fstate[0] = "idle"
    /\ fstate[i] = "completed" /\ result[i].kind = "none"
    /\ stats' = [stats EXCEPT !.skipped = @ + 1]
    /\ fstate' = [fstate EXCEPT ![i] = "merged"]
    /\ UNCHANGED <<env, files_to_process, phase, next_i, tmp, nlog, result,
                   dependencies, reported, partial, pipe>>

\* lines 327-330: future.result() raises; the main thread goes on to increment
\* errors twice (line 329 and _log_error)
MergeRaise(i) ==
    /\ phase = "scanning" /\ parallel /\ fstate[0] = "idle"
    /\ fstate[i] = "completed" /\ result[i].kind = "raise"
    /\ fstate' = [fstate EXCEPT ![0] = "running", ![i] = "merging"]
    /\ nlog' = [nlog EXCEPT ![0] = 2]
    /\ UNCHANGED <<env, files_to_process, phase, next_i, tmp, result, dependencies,
                   stats, reported, partial, pipe>>

\* the except clause has ended
MergeRaiseDone(i) ==
    /\ phase = "scanning" /\ fstate[0] = "running" /\ nlog[0] = 0
    /\ fstate[i] = "merging"
    /\ fstate' = [fstate EXCEPT ![0] = "idle", ![i] = "merged"]
    /\ UNCHANGED <<env, files_to_process, phase, next_i, tmp, nlog, result,
                   dependencies, stats, reported, partial, pipe>>

\* lines 295-298 after _parallel_process_files returned
FinishParallel ==
    /\ phase = "scanning" /\ parallel /\ fstate[0] = "idle"
    /\ next_i > Len(files_to_process)
    /\ \A i \in Files : fstate[i] = "merged"
    /\ phase' = "done"
    /\ reported' = <<stats>>
    /\ UNCHANGED <<env, files_to_process, next_i, fstate, tmp, nlog, result,
                   dependencies, stats, partial, pipe>>

\* KeyboardInterrupt in the main thread between two merges (or while it waits):
\* it leaves the loops, and the executor's __exit__ waits for the submitted work
InterruptParallel ==
    /\ phase = "scanning" /\ parallel
    /\ phase' = "stopping"
    /\ UNCHANGED <<env, files_to_process, next_i, fstate, tmp, nlog, result,
                   dependencies, stats, reported, partial, pipe>>

\* KeyboardInterrupt inside lines 321-323: after the first k statements
InterruptMerge(i, k) ==
    /\ phase = "scanning" /\ parallel /\ fstate[0] = "idle"
    /\ fstate[i] = "completed" /\ result[i].kind = "result"
    /\ dependencies' = put(dependencies, result[i].rel_path, result[i].deps)
    /\ stats' = IF k = 2 THEN [stats EXCEPT !.files_processed = @ + 1] ELSE stats
    /\ fstate' = [fstate EXCEPT ![i] = "cut"]
    /\ partial' = <<[file |-> files_to_process[i], done |-> k]>>
    /\ phase' = "stopping"
    /\ UNCHANGED <<env, files_to_process, next_i, tmp, nlog, result, reported, pipe>>

\* the pool has drained; main() prints "Operation cancelled by user" and exits
Exit ==
    /\ phase = "stopping"
    /\ \A i \in Files : fstate[i] \notin {"queued", "running", "logging"}
    /\ phase' = "cancelled"
    /\ UNCHANGED <<env, files_to_process, next_i, fstate, tmp, nlog, result,
                   dependencies, stats, reported, partial, pipe>>

----------------------------------------------------------------------------
(* the sequential loop (lines 286-293)                                      *)

\* the loop goes on after a call of _process_file_single with outcome o; an
\* exception leaving the call ends scan_project and main() prints "Fatal error"
single_done(o) ==
    IF o.raised
    THEN /\ phase' = "fatal"
         /\ UNCHANGED <<next_i, fstate, stats, dependencies>>
    ELSE /\ stats' = o.stats
         /\ dependencies' = o.dependencies
         /\ fstate' = [fstate EXCEPT ![next_i] = "merged"]
         /\ next_i' = next_i + 1
         /\ phase' = phase

\* one call of _process_file_single
ProcessSingle ==
    /\ phase = "scanning" /\ ~parallel
    /\ next_i <= Len(files_to_process)
    /\ single_done(process_file_single(files_to_process[next_i], stats, dependencies))
    /\ UNCHANGED <<env, files_to_process, tmp, nlog, result, reported, partial, pipe>>

\* lines 295-298 after the loop
FinishSequential ==
    /\ phase = "scanning" /\ ~parallel
    /\ next_i > Len(files_to_process)
    /\ phase' = "done"
    /\ reported' = <<stats>>
    /\ UNCHANGED <<env, files_to_process, next_i, fstate, tmp, nlog, result,
                   dependencies, stats, partial, pipe>>

\* KeyboardInterrupt between two files
InterruptSequential ==
    /\ phase = "scanning" /\ ~parallel
    /\ phase' = "cancelled"
    /\ UNCHANGED <<env, files_to_process, next_i, fstate, tmp, nlog, result,
                   dependencies, stats, reported, partial, pipe>>

\* a call of _process_file_single with outcome o stopped inside lines 389-391,
\* after the first k statements
single_cut(k, o) ==
    /\ ~o.raised /\ o.dependencies # dependencies
    /\ dependencies' = o.dependencies
    /\ stats' = IF k = 2
                THEN [stats EXCEPT !.errors = o.stats.errors,
                                   !.dependencies_found = o.stats.dependencies_found]
                ELSE [stats EXCEPT !.errors = o.stats.errors]

\* KeyboardInterrupt inside lines 389-391
InterruptSingle(k) ==
    /\ phase = "scanning" /\ ~parallel
    /\ next_i <= Len(files_to_process)
    /\ single_cut(k, process_file_single(files_to_process[next_i], stats, dependencies))
    /\ fstate' = [fstate EXCEPT ![next_i] = "cut"]
    /\ partial' = <<[file |-> files_to_process[next_i], done |-> k]>>
    /\ phase' = "cancelled"
    /\ UNCHANGED <<env, files_to_process, next_i, tmp, nlog, result, reported, pipe>>

Next ==
    \/ Enumerate
    \/ Submit
    \/ \E i \in Files : Start(i)
    \/ \E t \in DOMAIN fstate : LogRead(t)
    \/ \E t \in DOMAIN fstate : LogWrite(t)
    \/ \E i \in Files : Finish(i)
    \/ \E i \in Files : MergeResult(i)
    \/ \E i \in Files : MergeNone(i)
    \/ \E i \in Files : MergeRaise(i)
    \/ \E i \in Files : MergeRaiseDone(i)
    \/ FinishParallel
    \/ InterruptParallel
    \/ \E i \in Files, k \in {1, 2} : InterruptMerge(i, k)
    \/ Exit
    \/ ProcessSingle
    \/ FinishSequential
    \/ InterruptSequential
    \/ \E k \in {1, 2} : InterruptSingle(k)

Spec == Init /\ [][Next]_vars

----------------------------------------------------------------------------
(* one file through the pipeline                                            *)

InitPipe ==
    /\ \E layout \in Layouts, rel \in PipeFiles :
         /\ project_root = layout.root
         /\ cwd = layout.cwd
         /\ fsfiles = {join(layout.cwd, f) : f \in PipeTree}
         /\ pfile = join(layout.root, rel)
         /\ content \in [{join(layout.root, rel)} -> SeqsUpTo(LinesOf(rel), MaxLines)]
         /\ fault = [fp \in {join(layout.root, rel)} |-> "none"]
    /\ aliases \in AliasTables
    /\ parallel = TRUE
    /\ files_to_process = <<>>
    /\ phase = "pipeline"
    /\ next_i = 1
    /\ fstate = <<>>
    /\ tmp = <<>>
    /\ nlog = <<>>
    /\ result = <<>>
    /\ dependencies = {}
    /\ stats = InitStats
    /\ reported = <<>>
    /\ partial = <<>>
    /\ ppc = "start"
    /\ ptrace = {}
    /\ pdeps = {}
    /\ pres = <<>>

\* _process_file_wrapper on the file, with extract_dependencies' intermediate values
PipeProcess ==
    /\ ppc = "start"
    /\ ptrace' = extract_pairs(pfile, content[pfile])
    /\ pdeps' = extract_dependencies(pfile, content[pfile])
    /\ pres' = process_file_wrapper(pfile)
    /\ ppc' = "done"
    /\ UNCHANGED <<env, files_to_process, phase, next_i, fstate, tmp, nlog, result,
                   dependencies, stats, reported, partial, pfile>>

NextPipe == PipeProcess

SpecPipe == InitPipe /\ [][NextPipe]_vars

----------------------------------------------------------------------------
(* the claims                                                               *)

\* the sum of f[1..n]
RECURSIVE Sum(_, _)
Sum(f, n) == IF n = 0 THEN 0 ELSE f[n] + Sum(f, n - 1)

\* the sum of the sizes of the sets stored in an edge mapping
RECURSIVE EdgeCount(_)
EdgeCount(edges) ==
    IF edges = {} THEN 0
    ELSE LET e == CHOOSE x \in edges : TRUE
         IN Cardinality(e[2]) + EdgeCount(edges \ {e})

\* C1: when scan_project completes, in either mode, files_processed + skipped
\* equals the number of enumerated files, whatever files are excluded,
\* unreadable or make a worker raise.
C1_AllAccounted ==
    phase = "done" =>
        stats.files_processed + stats.skipped = Len(files_to_process)

\* a file that is not excluded, is read and processed without error, and whose
\* resolved dependency set is empty
HealthyEmpty(file_path) ==
    /\ ~should_exclude(file_path)
    /\ fault[file_path] = "none"
    /\ process_file_wrapper(file_path).deps = {}

\* C2: in either mode, accounting for a healthy file with an empty dependency
\* set increments files_processed and nothing else, and adds no key to the
\* edge mapping.
C2_EmptyCountsProcessed ==
    [][\A i \in Files :
          (fstate[i] # "merged" /\ fstate'[i] = "merged"
           /\ HealthyEmpty(files_to_process[i]))
          => /\ stats' = [stats EXCEPT !.files_processed = @ + 1]
             /\ dependencies' = dependencies]_vars

\* what lines 317-330 make of the futures' outcomes when no two updates of a
\* counter overlap: the edges and the counters
MergedEdges ==
    {<<result[i].rel_path, result[i].deps>> : i \in {j \in Files : result[j].kind = "result"}}
MergedStats ==
    [files_processed |-> Cardinality({i \in Files : result[i].kind = "result"}),
     dependencies_found |-> Sum([i \in Files |-> Cardinality(result[i].deps)],
                                Len(files_to_process)),
     errors |-> Sum([i \in Files |-> result[i].logs
                                      + (IF result[i].kind = "raise" THEN 2 ELSE 0)],
                    Len(files_to_process)),
     warnings |-> 0,
     skipped |-> Cardinality({i \in Files : result[i].kind = "none"})]

\* C3: for a fixed tree and alias table, a completed parallel scan ends with
\* the same edge mapping and the same counters whatever the dispatch order and
\* the order in which workers complete and are merged.
C3_OrderIndependent ==
    (phase = "done" /\ parallel) =>
        dependencies = MergedEdges /\ stats = MergedStats

\* a completed parallel scan in which two errors were logged and both counted
C3_SerialRun ==
    phase = "done" /\ parallel /\ stats = MergedStats /\ stats.errors >= 2

\* C4: a token that starts with more than one alias key resolves through the
\* longest of them, whatever the insertion order: the result is that alias's
\* target followed by the rest of the token after the prefix.
C4_LongestAliasWins ==
    ppc = "done" =>
        \A pr \in ptrace :
            LET keys == {k \in 1..Len(aliases) : startswith(pr[1], aliases[k][1])}
            IN Cardinality(keys) > 1 =>
                   \E k \in keys :
                       /\ \A j \in keys : Len(aliases[j][1]) <= Len(aliases[k][1])
                       /\ pr[2] = aliases[k][2] \o From(pr[1], Len(aliases[k][1]) + 1)

\* the header named by a line of the form #include "h", <<>> for other lines
QuotedHeader(line) ==
    IF /\ startswith(line, <<"#", "i", "n", "c", "l", "u", "d", "e", " ", "\"">>)
       /\ Len(line) > 11
       /\ line[Len(line)] = "\""
    THEN SubSeq(line, 11, Len(line) - 1)
    ELSE <<>>

\* the header named by a line of the form #include <h>, <<>> for other lines
SystemHeader(line) ==
    IF /\ startswith(line, <<"#", "i", "n", "c", "l", "u", "d", "e", " ", "<">>)
       /\ Len(line) > 11
       /\ line[Len(line)] = ">"
    THEN SubSeq(line, 11, Len(line) - 1)
    ELSE <<>>

\* the project-relative name of an absolute path
ProjectPath(abs_path) == relpath(abs_path, abspath(project_root))

\* C5: a C or C++ file in any directory of the project with #include "h", h
\* existing relative to the file's directory, yields the edge from the file's
\* project-relative path to the header's project-relative path.
C5_LocalIncludeEdge ==
    (ppc = "done" /\ detect_language(pfile) \in {"c", "cpp"} /\ ~should_exclude(pfile)) =>
        \A k \in 1..Len(content[pfile]) :
            LET h == QuotedHeader(content[pfile][k])
                target == normpath(join(dirname(abspath(pfile)), h))
            IN (h # <<>> /\ target \in fsfiles) =>
                   /\ pres.kind = "result"
                   /\ pres.rel_path = ProjectPath(abspath(pfile))
                   /\ ProjectPath(target) \in pres.deps

\* the lines of a file without its #include <h> lines
WithoutSystem(lines) == SelectSeq(lines, LAMBDA line : SystemHeader(line) = <<>>)

\* C6: in a C or C++ file the #include <h> lines contribute nothing: the
\* dependencies and the result are those of the file without these lines, and
\* a header named only between angle brackets is no edge target, whatever the
\* other lines and the alias table.
C6_SystemIncludesSilent ==
    (ppc = "done" /\ detect_language(pfile) \in {"c", "cpp"}) =>
        /\ pdeps = extract_dependencies(pfile, WithoutSystem(content[pfile]))
        /\ ~should_exclude(pfile) =>
               pres = process_lines(pfile, WithoutSystem(content[pfile]))
        /\ \A k \in 1..Len(content[pfile]) :
               LET h == SystemHeader(content[pfile][k])
               IN (h # <<>> /\ \A j \in 1..Len(content[pfile]) :
                                   QuotedHeader(content[pfile][j]) # h)
                  => \A dep \in pdeps \cup pres.deps : ~endswith(dep, h)

\* a C file with a system include next to a local include, under a non-empty
\* alias table, has been processed and has edges
C6_Mixed ==
    /\ ppc = "done" /\ detect_language(pfile) = "c" /\ aliases # <<>>
    /\ \E k \in 1..Len(content[pfile]) : SystemHeader(content[pfile][k]) # <<>>
    /\ \E k \in 1..Len(content[pfile]) : QuotedHeader(content[pfile][k]) # <<>>
    /\ pres.kind = "result"

\* C7: after every merge of a file's result, and at completion, the counter
\* dependencies_found equals the sum of the sizes of the sets stored in the
\* edge mapping (a merge cut short by an interrupt is not a merge).
C7_FoundIsEdgeCount ==
    partial = <<>> => stats.dependencies_found = EdgeCount(dependencies)

\* a completed parallel scan that merged three files with four dependencies
C7_Merged ==
    /\ phase = "done" /\ parallel
    /\ Cardinality(dependencies) = 3 /\ stats.dependencies_found = 4

\* C8: after an interrupt the run ends with the partial statistics reported
\* and with no file merged in part.
C8_CancelReports ==
    phase = "cancelled" => reported # <<>> /\ partial = <<>>

\* C9: a failure of one file at any stage never aborts the scan, and a
\* completed scan holds the edges of every file that did not fail.
C9_FaultIsolation ==
    /\ phase # "fatal"
    /\ phase = "done" =>
           \A i \in Files :
               (fault[files_to_process[i]] = "none"
                /\ process_file_wrapper(files_to_process[i]).kind = "result")
               => <<process_file_wrapper(files_to_process[i]).rel_path,
                    process_file_wrapper(files_to_process[i]).deps>> \in dependencies

\* C10: a token naming an existing directory that holds an index file yields
\* the project-relative path of the first index file in the extension order of
\* the importing file's language, and not the directory.
C10_IndexFile ==
    (ppc = "done" /\ ~should_exclude(pfile)) =>
        \A pr \in ptrace :
            LET dir == normpath(join(dirname(abspath(pfile)), pr[1]))
            IN (startswith(pr[1], <<".">>) /\ isdir(dir)
                /\ index_file(dir, abspath(pfile)) # dir)
               => /\ ProjectPath(index_file(dir, abspath(pfile))) \in pres.deps
                  /\ ProjectPath(dir) \notin pres.deps

\* a step taken by the pool worker that runs _process_file_wrapper on file i
WorkerStep(i) ==
    fstate[i] \in {"queued", "running", "logging"} /\ fstate'[i] # fstate[i]

\* C11: in parallel mode no step of a worker running _process_file_wrapper
\* writes the edge mapping or a counter, the errors counter included; the
\* shared state changes only in the main thread's merge.
C11_WorkersNeverWrite ==
    [][(parallel /\ \E i \in Files : WorkerStep(i))
       => (stats' = stats /\ dependencies' = dependencies)]_vars

\* the step that settles the account of file i (its terminal state)
AccountStep(i) == fstate[i] # "merged" /\ fstate'[i] = "merged"

\* C12: a file ends in one terminal state: it is accounted as skipped only if
\* it is excluded, and a file that failed to be read is accounted as failed
\* alone, neither as skipped nor as processed.
C12_OneTerminalState ==
    [][\A i \in Files :
          AccountStep(i) =>
              /\ stats'.skipped # stats.skipped
                     => should_exclude(files_to_process[i])
              /\ (fault[files_to_process[i]] = "unreadable"
                  /\ ~should_exclude(files_to_process[i]))
                     => /\ stats'.skipped = stats.skipped
                        /\ stats'.files_processed = stats.files_processed]_vars

\* a parallel scan has accounted an unreadable file as skipped after its
\* worker counted an error for it
C12_FailedAndSkipped ==
    /\ parallel /\ stats.errors > 0
    /\ \E i \in Files :
           /\ fstate[i] = "merged"
           /\ fault[files_to_process[i]] = "unreadable"
           /\ ~should_exclude(files_to_process[i])
           /\ stats.skipped > 0
           /\ \A j \in Files \ {i} : fstate[j] # "merged"

\* C13: a token whose candidate does not exist on disk, a token starting with
\* "." or "/" included, is stored as edge target as the cleaned token itself,
\* not joined with the file's directory or otherwise rewritten.
C13_MissingKeepsToken ==
    (ppc = "done" /\ ~should_exclude(pfile)) =>
        \A pr \in ptrace :
            (/\ ~exists(pr[2])
             /\ ~exists(normpath(join(dirname(abspath(pfile)), pr[1])))
             /\ ~\E exclude_dir \in exclude_dirs : contains(pr[1], exclude_dir))
            => /\ pr[1] \in pres.deps
               /\ pr[2] # pr[1] => pr[2] \notin pres.deps

\* lines 289-293 run on the first k enumerated files from the initial counters
\* and the empty edge mapping
RECURSIVE SequentialRun(_)
SequentialRun(k) ==
    IF k = 0 THEN [raised |-> FALSE, stats |-> InitStats, dependencies |-> {}]
    ELSE single_next(SequentialRun(k - 1), files_to_process[k])

\* C14: for the same tree, alias table and exclusion set, a completed scan
\* ends with the edge mapping and the counters files_processed,
\* dependencies_found, errors and skipped of the sequential run, whether it
\* ran sequentially or in parallel.
C14_ModesAgree ==
    (phase = "done" /\ ~SequentialRun(Len(files_to_process)).raised) =>
        /\ dependencies = SequentialRun(Len(files_to_process)).dependencies
        /\ stats.files_processed = SequentialRun(Len(files_to_process)).stats.files_processed
        /\ stats.dependencies_found
               = SequentialRun(Len(files_to_process)).stats.dependencies_found
        /\ stats.errors = SequentialRun(Len(files_to_process)).stats.errors
        /\ stats.skipped = SequentialRun(Len(files_to_process)).stats.skipped

\* a completed sequential scan that counted an error and ends as SequentialRun
C14_SequentialDone ==
    /\ phase = "done" /\ ~parallel /\ stats.errors > 0
    /\ stats = SequentialRun(Len(files_to_process)).stats
    /\ dependencies = SequentialRun(Len(files_to_process)).dependencies

====
